---- MODULE Spec2Model ----
(***************************************************************************)
(* Model of dbfToSqlite.py: the multi-tenant ingestion of el_pwz.dbf files *)
(* into one SQLite table with the duplicate check on the fingerprint       *)
(* (wz__pat, wz__dat, wz_time) per mandant.                                *)
(*                                                                         *)
(* Only the three fingerprint fields of a record are modelled; the other   *)
(* foreign fields are copied verbatim by the INSERT and take no part in    *)
(* any decision of the code.  The store is the file named by output_file.  *)
(***************************************************************************)
EXTENDS Integers, Sequences, FiniteSets, TLC

----------------------------------------------------------------------------
(* Bounds *)

MaxRecs == 2      \* records per source file
MaxRuns == 2      \* runs of main() in one behaviour

(* The [Directories] section: mandant -> directory, in configured order. *)
directories == <<"a", "b", "c">>

Mandants == {directories[n] : n \in 1..Len(directories)}

FPFields == {"wz__pat", "wz__dat", "wz_time"}

----------------------------------------------------------------------------
(* Python values as dbfread delivers them.  A value is its type and its    *)
(* text: a is the literal (integer part for a float, date part for a       *)
(* datetime), b the fractional digits of a float or the time of a datetime *)

PyStrVal(s) == [ty |-> "str", a |-> s, b |-> ""]
PyInt(n) == [ty |-> "int", a |-> n, b |-> ""]
PyFloat(n, frac) == [ty |-> "float", a |-> n, b |-> frac]
PyDate(d) == [ty |-> "date", a |-> d, b |-> ""]
PyDateTime(d, t) == [ty |-> "datetime", a |-> d, b |-> t]
PyNone == [ty |-> "NoneType", a |-> "", b |-> ""]

(* str(value) *)
str(v) ==
    CASE v.ty = "float" -> v.a \o "." \o v.b
      [] v.ty = "datetime" -> v.a \o " " \o v.b
      [] v.ty = "NoneType" -> "None"
      [] OTHER -> v.a

(* value.isoformat() of a date or datetime *)
isoformat(v) == IF v.ty = "datetime" THEN v.a \o "T" \o v.b ELSE v.a

(* isinstance(value, date): datetime is a subclass of date *)
isinstance_date(v) == v.ty \in {"date", "datetime"}

----------------------------------------------------------------------------
(* SQLite storage: a stored value is its storage class and its text. *)

SqlValue(cls, a, b) == [cls |-> cls, a |-> a, b |-> b]

(* sqlite3 parameter binding, with the two registered adapters *)
adapt_date(v) == isoformat(v)
adapt_datetime(v) == isoformat(v)

Bind(v) ==
    CASE v.ty = "int" -> SqlValue("INTEGER", v.a, "")
      [] v.ty = "float" -> SqlValue("REAL", v.a, v.b)
      [] v.ty = "str" -> SqlValue("TEXT", v.a, "")
      [] v.ty = "date" -> SqlValue("TEXT", adapt_date(v), "")
      [] v.ty = "datetime" -> SqlValue("TEXT", adapt_datetime(v), "")
      [] OTHER -> SqlValue("NULL", "", "")

(* Mapping of DBF field types to SQLite types *)
typemap(tag) ==
    CASE tag = "F" -> "FLOAT"
      [] tag = "L" -> "BOOLEAN"
      [] tag = "I" -> "INTEGER"
      [] tag = "C" -> "TEXT"
      [] tag = "N" -> "REAL"
      [] tag = "M" -> "TEXT"
      [] tag = "D" -> "DATE"
      [] tag = "T" -> "DATETIME"
      [] tag = "0" -> "INTEGER"
      [] OTHER -> "TEXT"

(* Column affinity SQLite derives from the declared type of a column *)
Affinity(decl) ==
    CASE decl = "INTEGER" -> "INTEGER"
      [] decl = "TEXT" -> "TEXT"
      [] decl \in {"REAL", "FLOAT"} -> "REAL"
      [] OTHER -> "NUMERIC"

(* Texts of the value universe that are well-formed integer literals *)
IntLiterals == {"7", "8"}

(* The value a column of the given affinity stores for a bound value *)
ApplyAffinity(aff, sv) ==
    CASE aff = "TEXT" /\ sv.cls = "INTEGER" -> SqlValue("TEXT", sv.a, "")
      [] aff = "TEXT" /\ sv.cls = "REAL" -> SqlValue("TEXT", sv.a \o "." \o sv.b, "")
      [] aff = "REAL" /\ sv.cls = "INTEGER" -> SqlValue("REAL", sv.a, "0")
      [] aff = "REAL" /\ sv.cls = "TEXT" /\ sv.a \in IntLiterals -> SqlValue("REAL", sv.a, "0")
      [] aff \in {"INTEGER", "NUMERIC"} /\ sv.cls = "REAL" /\ sv.b = "0" -> SqlValue("INTEGER", sv.a, "")
      [] aff \in {"INTEGER", "NUMERIC"} /\ sv.cls = "TEXT" /\ sv.a \in IntLiterals -> SqlValue("INTEGER", sv.a, "")
      [] OTHER -> sv

(* The Python value cursor.fetchall() returns for a stored value *)
Fetch(sv) ==
    CASE sv.cls = "INTEGER" -> PyInt(sv.a)
      [] sv.cls = "REAL" -> PyFloat(sv.a, sv.b)
      [] sv.cls = "TEXT" -> PyStrVal(sv.a)
      [] OTHER -> PyNone

----------------------------------------------------------------------------
(* Source files *)

(* Field declarations of el_pwz.dbf (wz__pat, wz__dat, wz_time) that occur *)
Schemas ==
    { [wz__pat |-> "C", wz__dat |-> "D", wz_time |-> "C"],
      [wz__pat |-> "N", wz__dat |-> "D", wz_time |-> "C"],
      [wz__pat |-> "I", wz__dat |-> "T", wz_time |-> "C"],
      [wz__pat |-> "F", wz__dat |-> "D", wz_time |-> "T"] }

(* Values dbfread parses from a field of the given type *)
PatValues(tag) ==
    CASE tag = "C" -> {PyStrVal("7"), PyStrVal("8")}
      [] tag = "N" -> {PyInt("7"), PyFloat("7", "5")}
      [] tag = "I" -> {PyInt("7"), PyInt("8")}
      [] OTHER -> {PyFloat("7", "5"), PyNone}

DatValue(tag) ==
    IF tag = "D" THEN PyDate("2024-01-01") ELSE PyDateTime("2024-01-01", "10:00:00")

TimeValue(tag) ==
    IF tag = "C" THEN PyStrVal("10:00") ELSE PyDateTime("2024-01-01", "10:00:00")

Records(fs) ==
    { [wz__pat |-> p, wz__dat |-> DatValue(fs.wz__dat), wz_time |-> TimeValue(fs.wz_time)] :
        p \in PatValues(fs.wz__pat) }

SeqsUpTo(S, n) == UNION { [1..m -> S] : m \in 0..n }

(* A source directory: el_pwz.dbf is absent, or present with its records  *)
Sources(fs) ==
    {[present |-> FALSE, records |-> <<>>]}
        \cup [present : {TRUE}, records : SeqsUpTo(Records(fs), MaxRecs)]

----------------------------------------------------------------------------
(* The store *)

NoCols == [f \in FPFields |-> ""]
EmptyDb == [exists |-> FALSE, cols |-> NoCols, rows |-> <<>>, seq |-> 0]

VARIABLES
    fields,            \* field declarations of the source files
    source,            \* mandant -> source file
    run,               \* number of runs of main() started
    pc,                \* position of main()
    k,                 \* index into directories of the current mandant
    i,                 \* enumerate index of insert_records
    existing_records,  \* the set insert_records works with
    inserted_count,
    conn,              \* the database as the open connection sees it
    in_transaction,    \* conn.in_transaction
    disk,              \* the committed database file
    exit_status,       \* -1 while running, else the exit status
    start_db,          \* history: disk when the current run connected
    prev_status,       \* history: exit status of the previous run, -1 if none
    commits,           \* history: conn.commit() calls of this run
    calls,             \* history: functions main has called for this mandant
    assigned           \* history: per record of this pass, the id of its row
                       \*          or 0 when the record was skipped

vars == <<fields, source, run, pc, k, i, existing_records,
          inserted_count, conn, in_transaction, disk, exit_status, start_db,
          prev_status, commits, calls, assigned>>

mandant == directories[k]
table == source[mandant].records

(* CREATE TABLE IF NOT EXISTS "el_pwz" (...) on a database *)
CreateTableSql(db, fs) ==
    IF db.exists THEN db
    ELSE [db EXCEPT !.exists = TRUE, !.cols = [f \in FPFields |-> typemap(fs[f])]]

(* Rows of a database tagged with a mandant, in table order *)
RowsOf(db, m) == SelectSeq(db.rows, LAMBDA r : r.mandant = m)

Range(s) == {s[n] : n \in 1..Len(s)}

(* Variant: the SELECT without its WHERE mandant = ? *)
load_existing_records_all(db, m) ==
    {<<str(Fetch(r.wz__pat)), str(Fetch(r.wz__dat)), str(Fetch(r.wz_time))>> :
        r \in Range(db.rows)}

(* load_existing_records: fingerprints of the rows of a mandant *)
RowTuple(row) ==
    <<str(Fetch(row.wz__pat)), str(Fetch(row.wz__dat)), str(Fetch(row.wz_time))>>

load_existing_records(db, m) == {RowTuple(r) : r \in Range(RowsOf(db, m))}

(* rec_tuple of insert_records *)
rec_tuple(rec) ==
    <<str(rec.wz__pat),
      IF isinstance_date(rec.wz__dat) THEN isoformat(rec.wz__dat) ELSE str(rec.wz__dat),
      str(rec.wz_time)>>

(* Variant: the id numbered per mandant instead of by AUTOINCREMENT *)
InsertSql_per_mandant(db, rec, m) ==
    LET newid == Len(RowsOf(db, m)) + 1
        row == [id |-> newid,
                wz__pat |-> ApplyAffinity(Affinity(db.cols.wz__pat), Bind(rec.wz__pat)),
                wz__dat |-> ApplyAffinity(Affinity(db.cols.wz__dat), Bind(rec.wz__dat)),
                wz_time |-> ApplyAffinity(Affinity(db.cols.wz_time), Bind(rec.wz_time)),
                mandant |-> m]
    IN [db EXCEPT !.rows = Append(@, row), !.seq = newid]

(* INSERT INTO "el_pwz" (id, ..., mandant) VALUES (NULL, ..., ?) *)
InsertSql(db, rec, m) ==
    LET newid == db.seq + 1
        row == [id |-> newid,
                wz__pat |-> ApplyAffinity(Affinity(db.cols.wz__pat), Bind(rec.wz__pat)),
                wz__dat |-> ApplyAffinity(Affinity(db.cols.wz__dat), Bind(rec.wz__dat)),
                wz_time |-> ApplyAffinity(Affinity(db.cols.wz_time), Bind(rec.wz_time)),
                mandant |-> m]
    IN [db EXCEPT !.rows = Append(@, row), !.seq = newid]

----------------------------------------------------------------------------
Init ==
    /\ fields \in Schemas
    /\ source \in [Mandants -> Sources(fields)]
    /\ run = 0
    /\ pc = "start"
    /\ k = 1
    /\ i = 1
    /\ existing_records = {}
    /\ inserted_count = 0
    /\ conn = EmptyDb
    /\ in_transaction = FALSE
    /\ disk = EmptyDb
    /\ exit_status = -1
    /\ start_db = EmptyDb
    /\ prev_status = -1
    /\ commits = 0
    /\ calls = <<>>
    /\ assigned = <<>>

(* main, lines 134-149: read the settings and connect *)
StartRun ==
    /\ pc \in {"start", "exit"}
    /\ run < MaxRuns
    /\ run' = run + 1
    /\ conn' = disk
    /\ in_transaction' = FALSE
    /\ start_db' = disk
    /\ k' = 1
    /\ pc' = IF Len(directories) >= 1 THEN "exists" ELSE "commit"
    /\ exit_status' = -1
    /\ prev_status' = exit_status
    /\ commits' = 0
    /\ calls' = <<>>
    /\ assigned' = <<>>
    /\ i' = 1
    /\ existing_records' = {}
    /\ inserted_count' = 0
    /\ UNCHANGED <<fields, source, disk>>

(* the for statement of main moves on to the next mandant *)
NextMandant ==
    /\ k' = k + 1
    /\ pc' = IF k + 1 <= Len(directories) THEN "exists" ELSE "commit"

(* Variant: break instead of continue on a missing file *)
CheckExists_break ==
    /\ pc = "exists"
    /\ IF ~source[mandant].present
       THEN /\ pc' = "commit"
            /\ k' = Len(directories) + 1
       ELSE /\ pc' = "DBF"
            /\ UNCHANGED k
    /\ UNCHANGED <<fields, source, run, i, existing_records,
                   inserted_count, conn, in_transaction, disk, exit_status,
                   start_db, prev_status, commits, calls, assigned>>

(* main, lines 153-157: os.path.exists *)
CheckExists ==
    /\ pc = "exists"
    /\ IF ~source[mandant].present
       THEN NextMandant
       ELSE /\ pc' = "DBF"
            /\ UNCHANGED k
    /\ UNCHANGED <<fields, source, run, i, existing_records,
                   inserted_count, conn, in_transaction, disk, exit_status,
                   start_db, prev_status, commits, calls, assigned>>

(* sys.exit without a commit: the connection is dropped, its transaction   *)
(* rolled back                                                             *)
Exit1 ==
    /\ pc' = "exit"
    /\ exit_status' = 1
    /\ conn' = disk
    /\ in_transaction' = FALSE

(* Variant: a decoding error treated like a missing file *)
ReadDBF_skip ==
    /\ pc = "DBF"
    /\ \E decoded \in BOOLEAN :
          IF ~decoded
          THEN NextMandant
          ELSE /\ pc' = "create_table"
               /\ UNCHANGED k
    /\ UNCHANGED <<fields, source, run, i, existing_records, conn, in_transaction,
                   exit_status, inserted_count, disk, start_db, prev_status,
                   commits, calls, assigned>>

(* Variant: insert_records called without create_table_if_not_exists *)
ReadDBF_nocreate ==
    /\ pc = "DBF"
    /\ \E decoded \in BOOLEAN :
          IF ~decoded
          THEN Exit1
          ELSE /\ pc' = "load_existing"
               /\ UNCHANGED <<conn, in_transaction, exit_status>>
    /\ UNCHANGED <<fields, source, run, k, i, existing_records,
                   inserted_count, disk, start_db, prev_status, commits, calls,
                   assigned>>

(* main, lines 159-166 and 174-177: DBF(..., load=True).  Whether the     *)
(* bytes of the file decode depends on the file and on the encoding and    *)
(* char_decode_errors settings of the run                                  *)
ReadDBF ==
    /\ pc = "DBF"
    /\ \E decoded \in BOOLEAN :
          IF ~decoded
          THEN Exit1
          ELSE /\ pc' = "create_table"
               /\ UNCHANGED <<conn, in_transaction, exit_status>>
    /\ UNCHANGED <<fields, source, run, k, i, existing_records,
                   inserted_count, disk, start_db, prev_status, commits, calls,
                   assigned>>

(* create_table_if_not_exists; sqlite3 opens no transaction for DDL, so    *)
(* the statement is committed on its own unless a transaction is open      *)
create_table_if_not_exists ==
    /\ pc = "create_table"
    /\ conn' = CreateTableSql(conn, fields)
    /\ disk' = IF in_transaction THEN disk ELSE CreateTableSql(disk, fields)
    /\ pc' = "load_existing"
    /\ calls' = Append(calls, "create_table_if_not_exists")
    /\ UNCHANGED <<fields, source, run, k, i, existing_records,
                   inserted_count, in_transaction, exit_status, start_db,
                   prev_status, commits, assigned>>

(* insert_records, lines 99-111: the call of load_existing_records.  The  *)
(* SELECT on a table that does not exist raises sqlite3.OperationalError,  *)
(* which main does not catch                                               *)
LoadExisting ==
    /\ pc = "load_existing"
    /\ calls' = Append(calls, "load_existing_records")
    /\ IF conn.exists
       THEN /\ existing_records' = load_existing_records(conn, mandant)
            /\ i' = 1
            /\ inserted_count' = 0
            /\ pc' = "for_rec"
            /\ UNCHANGED <<conn, in_transaction, exit_status>>
       ELSE /\ Exit1
            /\ UNCHANGED <<existing_records, i, inserted_count>>
    /\ UNCHANGED <<fields, source, run, k, disk, start_db, prev_status, commits,
                   assigned>>

(* insert_records, lines 114-126: one iteration of the loop *)
ProcessRecord ==
    /\ pc = "for_rec"
    /\ i <= Len(table)
    /\ LET rec == table[i]
       IN IF rec_tuple(rec) \notin existing_records
          THEN /\ conn' = InsertSql(conn, rec, mandant)
               /\ in_transaction' = TRUE
               /\ inserted_count' = inserted_count + 1
               /\ existing_records' = existing_records \cup {rec_tuple(rec)}
               /\ assigned' = Append(assigned, conn'.rows[Len(conn'.rows)].id)
          ELSE /\ UNCHANGED <<conn, in_transaction, inserted_count, existing_records>>
               /\ assigned' = Append(assigned, 0)
    /\ i' = i + 1
    /\ UNCHANGED <<fields, source, run, pc, k, disk, exit_status, start_db,
                   prev_status, commits, calls>>

(* Variant: a conn.commit() after the pass of every mandant *)
EndPass_commit ==
    /\ pc = "for_rec"
    /\ i > Len(table)
    /\ NextMandant
    /\ i' = 1
    /\ existing_records' = {}
    /\ inserted_count' = 0
    /\ calls' = <<>>
    /\ assigned' = <<>>
    /\ disk' = conn
    /\ in_transaction' = FALSE
    /\ commits' = commits + 1
    /\ UNCHANGED <<fields, source, run, conn, exit_status, start_db, prev_status>>

(* insert_records returns, line 132; its locals are gone *)
EndPass ==
    /\ pc = "for_rec"
    /\ i > Len(table)
    /\ NextMandant
    /\ i' = 1
    /\ existing_records' = {}
    /\ inserted_count' = 0
    /\ calls' = <<>>
    /\ assigned' = <<>>
    /\ UNCHANGED <<fields, source, run, conn, in_transaction, disk, exit_status,
                   start_db, prev_status, commits>>

(* main, lines 179-191: conn.commit() and the normal end *)
Commit ==
    /\ pc = "commit"
    /\ disk' = conn
    /\ in_transaction' = FALSE
    /\ commits' = commits + 1
    /\ pc' = "exit"
    /\ exit_status' = 0
    /\ UNCHANGED <<fields, source, run, k, i, existing_records, inserted_count,
                   conn, start_db, prev_status, calls, assigned>>

Next ==
    \/ StartRun
    \/ CheckExists
    \/ ReadDBF
    \/ create_table_if_not_exists
    \/ LoadExisting
    \/ ProcessRecord
    \/ EndPass
    \/ Commit

Spec == Init /\ [][Next]_vars

----------------------------------------------------------------------------
(* Claims *)

StoredKey(row) == <<row.wz__pat, row.wz__dat, row.wz_time>>

NoTwoRowsShareKey(db) ==
    \A x, y \in 1..Len(db.rows) :
        (x # y /\ db.rows[x].mandant = db.rows[y].mandant)
            => StoredKey(db.rows[x]) # StoredKey(db.rows[y])

(* C1: fingerprint uniqueness.  In every state, after any sequence of      *)
(* completed and aborted runs, neither the table the connection sees nor   *)
(* the committed table holds two rows of the same mandant with identical   *)
(* (wz__pat, wz__dat, wz_time).                                            *)
C1_FingerprintUniqueness == NoTwoRowsShareKey(conn) /\ NoTwoRowsShareKey(disk)

(* C2: idempotence.  A run that completes over the unchanged sources       *)
(* against the store committed by the completed run before it inserts no   *)
(* row: the table after the second run is the table after the first.       *)
C2_Idempotence ==
    (pc = "exit" /\ exit_status = 0 /\ prev_status = 0)
        => /\ Len(disk.rows) = Len(start_db.rows)
           /\ \A m \in Mandants : Len(RowsOf(disk, m)) = Len(RowsOf(start_db, m))

(* C3: exactly one row.  When insert_records has finished the pass of a    *)
(* mandant, the table holds exactly one row of that mandant per distinct   *)
(* fingerprint of the records of its source.                               *)
C3_ExactlyOneRow ==
    (pc = "for_rec" /\ i > Len(table))
        => Len(RowsOf(conn, mandant)) = Cardinality({rec_tuple(table[n]) : n \in 1..Len(table)})

(* C10: canonicalization round trip.  Throughout a pass the in-memory      *)
(* index equals the set load_existing_records would return for the mandant *)
(* at that moment, that is, the fingerprint computed from a record equals  *)
(* the fingerprint computed from the row stored for it.                    *)
C10_RoundTrip ==
    pc = "for_rec" => existing_records = load_existing_records(conn, mandant)

OwnRowTuples ==
    {RowTuple(conn.rows[n]) : n \in {x \in 1..Len(conn.rows) : conn.rows[x].mandant = mandant}}

IsolatedStep ==
    pc \in {"create_table", "load_existing", "for_rec"} =>
        /\ \A m \in Mandants \ {mandant} :
              /\ RowsOf(conn', m) = RowsOf(conn, m)
              /\ RowsOf(disk', m) = RowsOf(disk, m)
        /\ (pc = "load_existing" /\ pc' = "for_rec") => existing_records' = OwnRowTuples
        /\ (pc = "for_rec" /\ i' = i + 1 /\ conn' = conn) =>
              rec_tuple(table[i]) \in OwnRowTuples \cup {rec_tuple(table[n]) : n \in 1..(i - 1)}

(* C4: tenant isolation.  Every step of the pass of a mandant leaves the    *)
(* rows of every other mandant as they are; the index load_existing_records *)
(* builds holds exactly the fingerprints of the rows of its own mandant;   *)
(* and a record is skipped only when its fingerprint belongs to a row of   *)
(* its own mandant or to an earlier record of the same pass.               *)
C4_TenantIsolation == [][IsolatedStep]_vars

(* a record of this pass was inserted although another mandant already     *)
(* stores the same fingerprint                                             *)
C4_Witness ==
    /\ pc = "for_rec"
    /\ \E n \in DOMAIN assigned :
          /\ assigned[n] # 0
          /\ \E r \in Range(conn.rows) : r.mandant # mandant /\ RowTuple(r) = rec_tuple(table[n])

(* C5: order preservation.  Within the pass of a mandant the ids of the    *)
(* inserted rows increase strictly in the order of the source records, and *)
(* each of them is larger than the id of every row that was in the table.  *)
C5_OrderPreservation ==
    pc = "for_rec" =>
        /\ \A x, y \in DOMAIN assigned :
              (x < y /\ assigned[x] # 0 /\ assigned[y] # 0) => assigned[x] < assigned[y]
        /\ \A x \in DOMAIN assigned :
              assigned[x] # 0 =>
                 /\ \A r \in Range(conn.rows) : r.id \notin Range(assigned) => r.id < assigned[x]
                 /\ Cardinality({n \in 1..Len(conn.rows) : conn.rows[n].id = assigned[x]}) = 1
                 /\ \A r \in Range(conn.rows) : r.id = assigned[x] => r.mandant = mandant

(* two records inserted in one pass into a table that already held rows *)
C5_Witness ==
    /\ pc = "for_rec"
    /\ Len(assigned) >= 2
    /\ assigned[1] # 0
    /\ assigned[2] # 0
    /\ \E r \in Range(conn.rows) : r.id \notin Range(assigned)

(* insert_records and the loop of main as functions of the database *)
RECURSIVE InsertLoop(_, _, _, _)
InsertLoop(db, idx, recs, m) ==
    IF recs = <<>> THEN db
    ELSE LET rec == Head(recs)
         IN IF rec_tuple(rec) \in idx
            THEN InsertLoop(db, idx, Tail(recs), m)
            ELSE InsertLoop(InsertSql(db, rec, m), idx \cup {rec_tuple(rec)}, Tail(recs), m)

insert_records(db, recs, m) == InsertLoop(db, load_existing_records(db, m), recs, m)

RECURSIVE IngestAll(_, _)
IngestAll(db, ms) ==
    IF ms = <<>> THEN db
    ELSE IngestAll(insert_records(CreateTableSql(db, fields), source[Head(ms)].records, Head(ms)),
                   Tail(ms))

PresentMandants == SelectSeq(directories, LAMBDA m : source[m].present)

SkipStep ==
    (pc = "exists" /\ ~source[mandant].present) =>
        /\ conn' = conn
        /\ disk' = disk
        /\ existing_records' = existing_records
        /\ calls' = calls
        /\ k' = k + 1
        /\ pc' \in {"exists", "commit"}
        /\ exit_status' = -1

(* C6: missing-source tolerance.  The step that finds no el_pwz.dbf for a  *)
(* mandant touches neither the table nor the index, calls nothing and      *)
(* moves on to the next mandant without ending the run; and a run that     *)
(* ends successfully has committed exactly what a run over the list of     *)
(* directories without the missing ones produces.                          *)
C6_MissingSourceTolerance ==
    /\ [][SkipStep]_vars
    /\ []((pc = "exit" /\ exit_status = 0) => disk = IngestAll(start_db, PresentMandants))

(* the second of three mandants is missing, the run ended successfully and *)
(* rows of the first and the third are committed                           *)
C6_Witness ==
    /\ pc = "exit"
    /\ exit_status = 0
    /\ ~source[directories[2]].present
    /\ Len(RowsOf(disk, directories[1])) > 0
    /\ Len(RowsOf(disk, directories[3])) > 0

ReadStep ==
    (pc = "DBF" /\ pc' # "create_table") =>
        /\ pc' = "exit"
        /\ exit_status' = 1
        /\ k' = k
        /\ disk' = disk
        /\ commits' = 0

(* C7: a decoding error is fatal.  The reading step either goes on to the  *)
(* table creation or ends the run at this mandant with exit status 1,      *)
(* without a commit and with the committed table untouched; after that     *)
(* nothing happens but the start of another run.                           *)
C7_DecodeFailureFatal ==
    /\ [][ReadStep]_vars
    /\ [][exit_status = 1 => run' = run + 1]_vars
    /\ [](exit_status = 1 => (pc = "exit" /\ commits = 0 /\ disk.rows = start_db.rows))

(* the run failed at a mandant after an earlier one was processed, and a   *)
(* later mandant whose file is present was never reached                   *)
C7_Witness ==
    /\ exit_status = 1
    /\ k = 2
    /\ source[directories[1]].records # <<>>
    /\ source[directories[3]].records # <<>>
    /\ disk.rows = <<>>

(* C8 as stated: while a run has not committed, running or aborted, the    *)
(* committed store shows no effect of it at all, neither a row nor a newly *)
(* created table.                                                          *)
C8_NoEffectBeforeCommit == exit_status # 0 => disk = start_db

(* C8 as amended: a run commits at most once, when all mandants are done;  *)
(* until then the committed store shows no row of the run, and differs     *)
(* from the store the run started with at most by the empty table that     *)
(* CREATE TABLE IF NOT EXISTS has created.                                 *)
C8_RowsAllOrNothing ==
    /\ [](exit_status # 0 =>
            /\ disk.rows = start_db.rows
            /\ disk.seq = start_db.seq
            /\ disk \in {start_db, CreateTableSql(start_db, fields)})
    /\ [](commits <= 1 /\ (commits = 1 <=> exit_status = 0))
    /\ [][commits' = commits + 1 =>
            (pc = "commit" /\ k = Len(directories) + 1 /\ disk' = conn /\ pc' = "exit")]_vars

(* rows of a finished mandant are uncommitted while the table the run      *)
(* created is already in the committed store                               *)
C8_Witness ==
    /\ exit_status = -1
    /\ k > 1
    /\ Len(conn.rows) > Len(disk.rows)
    /\ disk.exists
    /\ ~start_db.exists

LoopStep ==
    (pc = "for_rec" /\ pc' = "for_rec") =>
        /\ calls' = calls
        /\ existing_records \subseteq existing_records'
        /\ existing_records' \subseteq existing_records \cup {rec_tuple(table[i])}

(* C9: step ordering.  For a mandant whose file is present main calls      *)
(* create_table_if_not_exists, then load_existing_records once, and only   *)
(* then inserts; the SELECT never meets a missing table, rows are inserted *)
(* only inside the loop, and during the loop the index only grows by the   *)
(* fingerprint of the current record.                                      *)
C9_StepOrdering ==
    /\ [](pc = "load_existing" => (conn.exists /\ calls = <<"create_table_if_not_exists">>))
    /\ [](pc = "for_rec" =>
            calls = <<"create_table_if_not_exists", "load_existing_records">>)
    /\ [][Len(conn'.rows) > Len(conn.rows) => pc = "for_rec"]_vars
    /\ [][LoopStep]_vars

(* a pass ran to its end with an insert and a skip *)
C9_Witness ==
    /\ pc = "for_rec"
    /\ i > Len(table)
    /\ \E n \in DOMAIN assigned : assigned[n] # 0
    /\ \E n \in DOMAIN assigned : assigned[n] = 0

====
